---- MODULE Spec2Model ----
(***************************************************************************)
(* State-machine model of the WebAudio channel mixer                       *)
(* (src/openrct2-ui/audio/WebAudioMixer.cpp, WebAudioMixer.h and           *)
(* src/openrct2/audio/WebAudioBridge.cpp).                                 *)
(*                                                                         *)
(* Two execution contexts are modelled:                                    *)
(*   - the foreground thread, which calls Play, Tick, SetVolume, Close,    *)
(*     AddSource and the methods of the channels it holds references to;   *)
(*     `pc` is its position inside the operation it is executing;          *)
(*   - the backend's completion context, which delivers                    *)
(*     WebAudioChannelEnded(id) -> WebAudioMixer::OnChannelEnded(id).      *)
(* `_mutex` is the std::mutex of the mixer.  A body executed under the     *)
(* lock is split where the code leaves the two containers unequal, so the  *)
(* states inside a critical section are states of the model.  The channel  *)
(* setters call UpdateChannel WITHOUT the lock: their done-check and their *)
(* command dispatch are two steps, and a completion may run in between.    *)
(*                                                                         *)
(* Units: rates are in 1/1000, pans in 1/10, stereo gains in 1/100000, the *)
(* master scalar in 1/100, the perceptual curves in 1/1000 and effective   *)
(* volumes in 1/10000000.  Offsets in seconds are fractions.               *)
(* Sample buffers are modelled by their length in bytes / samples.         *)
(***************************************************************************)
EXTENDS Integers, Sequences, FiniteSets, TLC

VARIABLES
    _nextChannelId,   \* WebAudioMixer::_nextChannelId
    _volume,          \* WebAudioMixer::_volume (master scalar, 1/100)
    _channels,        \* WebAudioMixer::_channels: list of channel objects
    _channelMap,      \* WebAudioMixer::_channelMap: id -> weak reference
    _sources,         \* WebAudioMixer::_sources: the pooled sources
    _settingSoundVolume,  \* WebAudioMixer::_settingSoundVolume
    _settingMusicVolume,  \* WebAudioMixer::_settingMusicVolume
    _adjustSoundVolume,   \* WebAudioMixer::_adjustSoundVolume (1/1000)
    _adjustMusicVolume,   \* WebAudioMixer::_adjustMusicVolume (1/1000)
    config,           \* Config::Get().sound
    gLegacyScene,     \* the scene the application is in
    _mutex,           \* WebAudioMixer::_mutex: "none", "fg" or "cb"
    chan,             \* the heap of WebAudioChannel objects that are alive
    held,             \* channel objects the caller holds a shared_ptr to
    released,         \* pooled sources whose IsReleased() is true
    pc,               \* position of the foreground thread ("blocked": in a
                      \* lock it holds itself)
    cur,              \* locals of the foreground operation in progress
    call,             \* the foreground operation in progress and its input
    ret,              \* its return value
    out,              \* backend commands issued by it so far
    cbpc,             \* position of the completion context
    cbId,             \* the id the completion context delivered
    cbChannel,        \* what its FindChannel returned (NULL: not found)
    removedIds,       \* history: ids erased from _channelMap so far
    mixerDone,        \* history: ids the mixer called SetDone(true) on
    departures,       \* history: id -> times it left _channels
    destroyed,        \* history: pooled sources the mixer destroyed
    allocated         \* history: the ids Play allocated, in order

vars == <<_nextChannelId, _volume, _channels, _channelMap, _sources, _mutex,
          _settingSoundVolume, _settingMusicVolume, _adjustSoundVolume,
          _adjustMusicVolume, config, gLegacyScene,
          chan, held, released, pc, cur, call, ret, out, cbpc, cbId,
          cbChannel, removedIds, mixerDone, departures, destroyed, allocated>>

(***************************************************************************)
(* Bounds of the model and the inputs the environment draws from.          *)
(***************************************************************************)
MaxChannels == 2

ChannelIds == 1..MaxChannels
EndedIds == 0..MaxChannels
SourceIds == {1}
NULL == 0

kMixerVolumeMax == 128

RateInputs == {1000}
VolumeInputs == {kMixerVolumeMax + 100}
PanInputs == {5}
GroupInputs == {"Sound"}
OffsetInputs == {4}
LoopInputs == {1}
DeleteOnDoneInputs == {TRUE}
MixerVolumeInputs == {0, 100}

\* The channels of the specifications of the channel parameters.
ParamChannels == 1

\* Inputs of the specification of the effective volume.
VolumeParamInputs == {-5, 0, 64, kMixerVolumeMax, kMixerVolumeMax + 100}
GroupParamInputs == {"Sound", "RideMusic", "TitleMusic"}
ScalarParamInputs == {0, 50, 100}
SceneInputs == {"titleSequence", "playing"}
ConfigInputs ==
    [masterSoundEnabled : BOOLEAN, masterVolume : {50, 100},
     soundVolume : {0, 50, 100}, rideMusicVolume : {50, 100}]

\* Inputs of the specification of pan and offset: pans from -0.3 to 1.4,
\* positions the backend reports in whole seconds.
PanParamInputs == -3..14
SecondsInputs == {0, 2}

Range(s) == {s[i] : i \in DOMAIN s}

Max(a, b) == IF a >= b THEN a ELSE b

Min(a, b) == IF a <= b THEN a ELSE b

Abs(a) == IF a >= 0 THEN a ELSE 0 - a

\* pow(10, n) for a whole n >= 0
RECURSIVE Pow10(_)
Pow10(n) == IF n <= 0 THEN 1 ELSE 10 * Pow10(n - 1)

\* A double holding seconds, as the fraction num / den.  den = 0 is the
\* result of a division by zero (NaN or an infinity).
Seconds(num, den) == [num |-> num, den |-> den]

(***************************************************************************)
(* Audio sources and formats.                                              *)
(***************************************************************************)
AudioFormat(fmt, channels, freq) ==
    [format |-> fmt, channels |-> channels, freq |-> freq]

NoFormat == AudioFormat("NONE", 0, 0)

\* What Play is handed: a pointer (NULL or a source), whether the source is an
\* SDLAudioSource, its format, its length in bytes, and whether SDL can build
\* and run a converter for it.
Source(ptr, sdl, fmt, channels, freq, length, cvt) ==
    [ptr |-> ptr, sdl |-> sdl, format |-> AudioFormat(fmt, channels, freq),
     length |-> length, cvt |-> cvt]

PlaySources ==
    { Source(NULL, FALSE, "NONE", 0, 0, 0, FALSE),   \* null pointer
      Source(1, FALSE, "S16", 1, 1, 2, TRUE),         \* not an SDLAudioSource
      Source(1, TRUE, "S16", 1, 1, 2, TRUE),          \* one frame, 2 bytes/s
      Source(1, TRUE, "S16", 1, 0, 2, TRUE),          \* sample rate 0
      Source(1, TRUE, "S16", 0, 1, 2, TRUE),          \* no channels
      Source(1, TRUE, "S16", 1, 1, 0, TRUE),          \* empty buffer
      Source(1, TRUE, "S16", 1, 1, 1, TRUE),          \* half a sample
      Source(1, TRUE, "U8", 2, 1, 1, TRUE),           \* half a stereo frame
      Source(1, TRUE, "S32", 1, 1, 4, FALSE),         \* conversion fails
      Source(1, TRUE, "S32", 1, 1, 4, TRUE) }         \* converted to S16

\* The sources the channel-lifecycle specification plays.
LifecycleSources ==
    { Source(NULL, FALSE, "NONE", 0, 0, 0, FALSE),
      Source(1, TRUE, "S16", 1, 1, 2, TRUE),
      Source(1, TRUE, "S16", 1, 0, 2, TRUE) }

BytesPerSample(fmt) ==
    CASE fmt = "U8" -> 1
      [] fmt = "S16" -> 2
      [] fmt = "S32" -> 4
      [] OTHER -> 0

GetBytesPerSecond(format) ==
    format.freq * format.channels * BytesPerSample(format.format)

\* ReadAllPcmData: a buffer of GetLength() bytes.
ReadAllPcmData(source) == source.length

\* ConvertToS16: the format and the buffer after SDL's conversion, or failure.
ConvertToS16(format, data, cvt) ==
    IF format.format = "S16"
    THEN [ok |-> TRUE, format |-> format, data |-> data]
    ELSE IF ~cvt
    THEN [ok |-> FALSE, format |-> format, data |-> data]
    ELSE [ok |-> TRUE,
          format |-> [format EXCEPT !.format = "S16"],
          data |-> (data \div BytesPerSample(format.format)) * 2]

\* ConvertToFloat: the number of float samples produced.
ConvertToFloat(format, data) ==
    IF format.format = "U8" THEN data ELSE data \div 2

PlayFailed == [ok |-> FALSE, format |-> NoFormat, channels |-> 0, frames |-> 0]

\* PlayPrepare without the check of the frame count.
PlayPrepareNoFrameCheck(source) ==
    IF source.ptr = NULL THEN PlayFailed
    ELSE IF ~source.sdl THEN PlayFailed
    ELSE
      LET pcmData == ReadAllPcmData(source)
          cv == IF source.format.format # "S16" /\ source.format.format # "U8"
                THEN ConvertToS16(source.format, pcmData, source.cvt)
                ELSE [ok |-> TRUE, format |-> source.format, data |-> pcmData]
      IN  IF ~cv.ok THEN PlayFailed
          ELSE IF cv.format.channels <= 0 THEN PlayFailed
          ELSE [ok |-> TRUE, format |-> cv.format,
                channels |-> cv.format.channels,
                frames |-> ConvertToFloat(cv.format, cv.data)
                           \div cv.format.channels]

\* WebAudioMixer::Play up to the lock: validation and conversion of the source.
PlayPrepare(source) ==
    IF source.ptr = NULL THEN PlayFailed
    ELSE IF ~source.sdl THEN PlayFailed
    ELSE
      LET pcmData == ReadAllPcmData(source)
          cv == IF source.format.format # "S16" /\ source.format.format # "U8"
                THEN ConvertToS16(source.format, pcmData, source.cvt)
                ELSE [ok |-> TRUE, format |-> source.format, data |-> pcmData]
      IN  IF ~cv.ok THEN PlayFailed
          ELSE
            LET floatData == ConvertToFloat(cv.format, cv.data)
                channels == cv.format.channels
            IN  IF channels <= 0 THEN PlayFailed
                ELSE
                  LET frames == floatData \div channels
                  IN  IF frames <= 0 THEN PlayFailed
                      ELSE [ok |-> TRUE, format |-> cv.format,
                            channels |-> channels, frames |-> frames]

(***************************************************************************)
(* Backend commands.  `removed` and `wasDone` record, at the moment of the *)
(* dispatch, whether the id had already been erased from the registry and  *)
(* whether the mixer had already marked the channel done.                  *)
(***************************************************************************)
Cmd(type, id, restart, g) ==
    [type |-> type, id |-> id, restart |-> restart,
     removed |-> id \in g.removed, wasDone |-> id \in g.done]

\* WebAudioPlayChannel and WebAudioUpdateChannel also carry the effective
\* volume and the offset in seconds.
ParamCmd(type, id, restart, volume, offset, g) ==
    [type |-> type, id |-> id, restart |-> restart,
     volume |-> volume, offset |-> offset,
     removed |-> id \in g.removed, wasDone |-> id \in g.done]

Ghost(removed, done) == [removed |-> removed, done |-> done]

(***************************************************************************)
(* The effective volume.                                                   *)
(***************************************************************************)
\* The whole cube root of n, for n up to 1000^3.
CubeRoot(n) ==
    CHOOSE r \in 0..1000 : r * r * r <= n /\ n < (r + 1) * (r + 1) * (r + 1)

\* powf(x / 100.f, 10.f / 6.f) in 1/1000, for x in 0..100:
\* (x/100)^(5/3) = (x/100) * cbrt((x/100)^2).
AdjustCurve(x) == (x * CubeRoot(x * x * 100000)) \div 100

\* MixerView with the master scalar left at 1.0.
MixerViewUnitScalar(volume, cfg, scene, cache) ==
    [volume |-> 100, config |-> cfg, scene |-> scene,
     adjustSound |-> cache.adjustSound, adjustMusic |-> cache.adjustMusic]

\* What GetAdjustedVolume reads: the master scalar, the configuration, the
\* scene and the two cached curves.
MixerView(volume, cfg, scene, cache) ==
    [volume |-> volume, config |-> cfg, scene |-> scene,
     adjustSound |-> cache.adjustSound, adjustMusic |-> cache.adjustMusic]

\* UpdateAdjustedSound on the cached settings and curves.
UpdateAdjustedSound(cache, cfg) ==
    LET c1 == IF cache.settingSound # cfg.soundVolume
              THEN [cache EXCEPT !.settingSound = cfg.soundVolume,
                                 !.adjustSound = AdjustCurve(cfg.soundVolume)]
              ELSE cache
    IN  IF c1.settingMusic # cfg.rideMusicVolume
        THEN [c1 EXCEPT !.settingMusic = cfg.rideMusicVolume,
                        !.adjustMusic = AdjustCurve(cfg.rideMusicVolume)]
        ELSE c1

\* GetAdjustedVolume without the cap of the title sequence.
GetAdjustedVolumeNoCap(c, m) ==
    LET master == m.volume * (IF m.config.masterSoundEnabled
                              THEN m.config.masterVolume ELSE 0)
        volumeAdjust == IF c._group = "Sound" THEN master * m.adjustSound
                        ELSE master * m.adjustMusic
    IN  (c._volume * volumeAdjust) \div kMixerVolumeMax

\* GetAdjustedVolume that ignores masterSoundEnabled.
GetAdjustedVolumeAlwaysOn(c, m) ==
    LET master == m.volume * m.config.masterVolume
        volumeAdjust ==
            IF c._group = "Sound"
            THEN IF m.scene = "titleSequence"
                 THEN Min(master * m.adjustSound, 7500000)
                 ELSE master * m.adjustSound
            ELSE master * m.adjustMusic
    IN  (c._volume * volumeAdjust) \div kMixerVolumeMax

\* GetAdjustedVolume, in 1/10000000; 7500000 is 0.75f.
GetAdjustedVolume(c, m) ==
    LET master == m.volume * (IF m.config.masterSoundEnabled
                              THEN m.config.masterVolume ELSE 0)
        volumeAdjust ==
            IF c._group = "Sound"
            THEN IF m.scene = "titleSequence"
                 THEN Min(master * m.adjustSound, 7500000)
                 ELSE master * m.adjustSound
            ELSE master * m.adjustMusic
    IN  (c._volume * volumeAdjust) \div kMixerVolumeMax

(***************************************************************************)
(* WebAudioChannel.                                                        *)
(***************************************************************************)
\* The member initialisers with _done = false.
ChannelFieldsNotDone(channelId) ==
    [_channelId |-> channelId, _source |-> NULL, _format |-> NoFormat,
     _offsetBytes |-> 0, _group |-> "Sound", _rate |-> 0, _loop |-> 0,
     _volume |-> 1, _volume_l |-> 0, _volume_r |-> 0, _pan |-> 0,
     _stopping |-> FALSE, _done |-> FALSE, _deleteondone |-> FALSE]

\* The member initialisers of the class.
ChannelFields(channelId) ==
    [_channelId |-> channelId, _source |-> NULL, _format |-> NoFormat,
     _offsetBytes |-> 0, _group |-> "Sound", _rate |-> 0, _loop |-> 0,
     _volume |-> 1, _volume_l |-> 0, _volume_r |-> 0, _pan |-> 0,
     _stopping |-> FALSE, _done |-> TRUE, _deleteondone |-> FALSE]

\* WebAudioMixer::UpdateChannel, first half: the done-check.
UpdateChannelEnter(c) == ~c._done

\* The offset in seconds UpdateChannel sends: 0.0 when the format has no
\* bytes per second.
UpdateOffsetSeconds(c) ==
    LET bytesPerSecond == GetBytesPerSecond(c._format)
    IN  IF bytesPerSecond > 0 THEN Seconds(c._offsetBytes, bytesPerSecond)
        ELSE Seconds(0, 1)

\* UpdateChannelSend with the restart flag stuck at 1.
UpdateChannelSendRestarts(c, restart, m, g) ==
    <<ParamCmd("Update", c._channelId, TRUE, GetAdjustedVolume(c, m),
               UpdateOffsetSeconds(c), g)>>

\* WebAudioMixer::UpdateChannel, second half: the command.
UpdateChannelSend(c, restart, m, g) ==
    <<ParamCmd("Update", c._channelId, restart, GetAdjustedVolume(c, m),
               UpdateOffsetSeconds(c), g)>>

UpdateChannel(c, restart, m, g) ==
    IF UpdateChannelEnter(c) THEN UpdateChannelSend(c, restart, m, g) ELSE <<>>

\* The field writes of the setters.
SetRate(c, rate) == [c EXCEPT !._rate = Max(1, rate)]

\* SetVolume without the clamp.
SetVolumeUnclamped(c, volume) == [c EXCEPT !._volume = volume]

SetVolume(c, volume) ==
    [c EXCEPT !._volume = Max(0, Min(volume, kMixerVolumeMax))]

\* SetPan with the two sides exchanged.
SetPanSwapped(c, pan) ==
    LET p == Max(0, Min(pan, 10))
        decibels == (Abs(p - 5) * 2) * 10
        attenuation == Pow10(decibels \div 20)
    IN  IF p <= 5
        THEN [c EXCEPT !._pan = p, !._volume_r = 100000,
                       !._volume_l = 100000 \div attenuation]
        ELSE [c EXCEPT !._pan = p, !._volume_l = 100000,
                       !._volume_r = 100000 \div attenuation]

\* SetPan: with the pan in 1/10 the decibels are a multiple of 20 and the
\* attenuation pow(10, decibels / 20.0) is a whole power of ten.
SetPan(c, pan) ==
    LET p == Max(0, Min(pan, 10))
        decibels == (Abs(p - 5) * 2) * 10
        attenuation == Pow10(decibels \div 20)
    IN  IF p <= 5
        THEN [c EXCEPT !._pan = p, !._volume_l = 100000,
                       !._volume_r = 100000 \div attenuation]
        ELSE [c EXCEPT !._pan = p, !._volume_r = 100000,
                       !._volume_l = 100000 \div attenuation]

SetGroup(c, group) == [c EXCEPT !._group = group]

SetFormat(c, format) == [c EXCEPT !._format = format]

SetDeleteOnDone(c, value) == [c EXCEPT !._deleteondone = value]

SetStopping(c, value) == [c EXCEPT !._stopping = value]

\* SetDone that drops the write.
SetDoneDropped(c, value) == c

SetDone(c, value) == [c EXCEPT !._done = value]

ChannelPlayFields(c, source, loop) ==
    [c EXCEPT !._source = source, !._loop = loop,
              !._offsetBytes = 0, !._done = FALSE]

\* Stop that also marks the channel done.
ChannelStopMarksDone(c) == SetDone(SetStopping(c, TRUE), TRUE)

ChannelStop(c) == SetStopping(c, TRUE)

(***************************************************************************)
(* The lock.  std::mutex is not recursive: a function that begins with     *)
(* std::lock_guard and is called by a context that holds the lock never    *)
(* returns; the context stays at "blocked" with the lock held.             *)
(***************************************************************************)
\* The functions with UpdateChannel taking the lock as well.
LockingFunctionsWithUpdateChannel ==
    {"Close", "Play", "Tick", "OnChannelEnded", "AddSource", "UpdateChannel"}

\* The functions of the mixer that begin with
\* std::lock_guard<std::mutex> guard(_mutex).
LockingFunctions == {"Close", "Play", "Tick", "OnChannelEnded", "AddSource"}

\* A context that holds the lock and calls the functions `fns` blocks in one
\* of them.
Blocks(fns) == \E i \in DOMAIN fns : fns[i] \in LockingFunctions

\* The calls of a setter into the mixer: UpdateChannel and, past its
\* done-check, UpdateAdjustedSound and GetAdjustedVolume.
UpdateChannelCalls(c) ==
    IF UpdateChannelEnter(c)
    THEN <<"UpdateChannel", "UpdateAdjustedSound", "GetAdjustedVolume">>
    ELSE <<"UpdateChannel">>

\* The constructor: SetRate(1); SetVolume(kMixerVolumeMax); SetPan(0.5f), each
\* followed by its UpdateChannel.  Play constructs under the lock.
Construct(channelId, m, g) ==
    LET c0 == ChannelFields(channelId)
        c1 == SetRate(c0, 1000)
        c2 == SetVolume(c1, kMixerVolumeMax)
        c3 == SetPan(c2, 5)
    IN  [c |-> c3,
         cmds |-> UpdateChannel(c1, FALSE, m, g)
                  \o UpdateChannel(c2, FALSE, m, g)
                  \o UpdateChannel(c3, FALSE, m, g),
         blocked |-> Blocks(UpdateChannelCalls(c1) \o UpdateChannelCalls(c2)
                            \o UpdateChannelCalls(c3))]

(***************************************************************************)
(* The registry and the heap.                                              *)
(***************************************************************************)
RegisterChannel(map, channelId, channel) ==
    [k \in (DOMAIN map) \cup {channelId} |->
        IF k = channelId THEN channel ELSE map[k]]

\* RemoveChannel that leaves the entry in the registry.
RemoveChannelKeeps(map, channelId) == map

RemoveChannel(map, channelId) ==
    [k \in (DOMAIN map) \ {channelId} |-> map[k]]

\* FindChannel that takes the first entry of the registry instead of find(id).
FindChannelFirst(map, heap, channelId) ==
    IF DOMAIN map = {} THEN NULL
    ELSE LET k == CHOOSE x \in DOMAIN map : \A y \in DOMAIN map : x <= y
         IN  IF map[k] \notin DOMAIN heap THEN NULL ELSE map[k]

\* FindChannel: the locked weak reference, NULL when absent or expired.
FindChannel(map, heap, channelId) ==
    IF channelId \notin DOMAIN map THEN NULL
    ELSE IF map[channelId] \notin DOMAIN heap THEN NULL
    ELSE map[channelId]

EmptyMap == [k \in {} |-> NULL]

\* Objects no shared_ptr refers to are destroyed.
Collect(heap, refs) == [o \in (DOMAIN heap) \cap refs |-> heap[o]]

CountGone(cnt, before, after) ==
    [i \in DOMAIN cnt |->
        IF i \in before /\ i \notin after THEN cnt[i] + 1 ELSE cnt[i]]

NoCall == [op |-> "none"]

\* Return values: nothing, a channel (NULL: none), a bool, a pooled source.
RetVoid == [type |-> "void", value |-> 0]

RetChannel(o) == [type |-> "channel", value |-> o]

RetBool(b) == [type |-> "bool", value |-> IF b THEN 1 ELSE 0]

RetSource(source) == [type |-> "source", value |-> source]

RetOffset(bytes) == [type |-> "offset", value |-> bytes]

NoCur == [channelId |-> NULL]

G == Ghost(removedIds, mixerDone)

\* The cached settings and curves of the mixer.
Cache ==
    [settingSound |-> _settingSoundVolume, settingMusic |-> _settingMusicVolume,
     adjustSound |-> _adjustSoundVolume, adjustMusic |-> _adjustMusicVolume]

\* The mixer as GetAdjustedVolume sees it with the cache as it is.
M == MixerView(_volume, config, gLegacyScene, Cache)

\* Config::Get().sound of the lifecycle specifications.
DefaultConfig ==
    [masterSoundEnabled |-> TRUE, masterVolume |-> 100,
     soundVolume |-> 100, rideMusicVolume |-> 100]

\* The cache after UpdateAdjustedSound.
SetCache(cache) ==
    /\ _settingSoundVolume' = cache.settingSound
    /\ _settingMusicVolume' = cache.settingMusic
    /\ _adjustSoundVolume' = cache.adjustSound
    /\ _adjustMusicVolume' = cache.adjustMusic

\* The mixer and its surroundings after construction.
InitMixer ==
    /\ _nextChannelId = 1
    /\ _volume = 100
    /\ _channels = <<>>
    /\ _channelMap = EmptyMap
    /\ _sources = <<>>
    /\ _mutex = "none"
    /\ chan = EmptyMap
    /\ held = {}
    /\ released = {}
    /\ pc = "idle"
    /\ cur = NoCur
    /\ call = NoCall
    /\ ret = RetVoid
    /\ out = <<>>
    /\ cbpc = "idle"
    /\ cbId = NULL
    /\ cbChannel = NULL
    /\ removedIds = {}
    /\ mixerDone = {}
    /\ departures = [i \in ChannelIds |-> 0]
    /\ _settingSoundVolume = -1
    /\ _settingMusicVolume = -1
    /\ _adjustSoundVolume = 1000
    /\ _adjustMusicVolume = 1000
    /\ destroyed = {}
    /\ allocated = <<>>

Init ==
    /\ InitMixer
    /\ config = DefaultConfig
    /\ gLegacyScene = "playing"

\* The foreground thread may start an operation.
FgIdle == pc = "idle" /\ cbpc = "idle"

(***************************************************************************)
(* WebAudioMixer::Play                                                     *)
(***************************************************************************)
\* _nextChannelId++ that does not advance the counter.
PostIncrementStuck(n) == n

\* The counter after _nextChannelId++
PostIncrement(n) == n + 1

\* The start offset Play computes: a division without a guard.
PlayOffsetSeconds(c, format) ==
    Seconds(c._offsetBytes, GetBytesPerSecond(format))

\* Validation; then lock, id allocation, construction and
\* _channels.push_back(channel).  A failed validation returns nullptr.
PlayCall(source, loop, deleteondone) ==
    /\ FgIdle
    /\ _mutex = "none"
    /\ source.ptr \notin destroyed
    /\ call' = [op |-> "Play", source |-> source]
    /\ LET p == PlayPrepare(source)
           channelId == _nextChannelId
           made == Construct(channelId, M, G)
           channel == SetDeleteOnDone(
                          ChannelPlayFields(SetFormat(made.c, p.format),
                                            source.ptr, loop),
                          deleteondone)
       IN  IF p.ok
           THEN /\ _nextChannelId <= MaxChannels
                /\ _mutex' = "fg"
                /\ _nextChannelId' = PostIncrement(_nextChannelId)
                /\ allocated' = Append(allocated, channelId)
                /\ out' = made.cmds
                /\ ret' = RetVoid
                /\ IF made.blocked
                   THEN /\ pc' = "blocked"
                        /\ UNCHANGED <<chan, _channels, cur>>
                   ELSE /\ chan' = [o \in (DOMAIN chan) \cup {channelId} |->
                                       IF o = channelId THEN channel
                                       ELSE chan[o]]
                        /\ _channels' = Append(_channels, channelId)
                        /\ cur' = [channelId |-> channelId,
                                   format |-> p.format, frames |-> p.frames]
                        /\ pc' = "playReg"
           ELSE /\ pc' = "ret"
                /\ ret' = RetChannel(NULL)
                /\ out' = <<>>
                /\ UNCHANGED <<_nextChannelId, _mutex, chan, _channels, cur,
                               allocated>>
    /\ UNCHANGED <<_volume, _channelMap, _sources, held, released,
                   cbpc, cbId, cbChannel, removedIds, mixerDone, departures>>
    /\ UNCHANGED <<config, gLegacyScene, _settingSoundVolume, _settingMusicVolume,
                   _adjustSoundVolume, _adjustMusicVolume, destroyed>>

\* RegisterChannel; the start command; unlock; return the channel
PlayRegister ==
    /\ pc = "playReg"
    /\ IF Blocks(<<"RegisterChannel", "UpdateAdjustedSound",
                   "GetAdjustedVolume">>)
       THEN /\ pc' = "blocked"
            /\ UNCHANGED <<_channelMap, _settingSoundVolume,
                           _settingMusicVolume, _adjustSoundVolume,
                           _adjustMusicVolume, out, _mutex, ret, held>>
       ELSE /\ _channelMap' = RegisterChannel(_channelMap, cur.channelId,
                                              cur.channelId)
            /\ LET cache == UpdateAdjustedSound(Cache, config)
                   m == MixerView(_volume, config, gLegacyScene, cache)
                   channel == chan[cur.channelId]
               IN  /\ SetCache(cache)
                   /\ out' = Append(out,
                                ParamCmd("Start", cur.channelId, FALSE,
                                         GetAdjustedVolume(channel, m),
                                         PlayOffsetSeconds(channel, cur.format),
                                         G))
            /\ _mutex' = "none"
            /\ ret' = RetChannel(cur.channelId)
            /\ held' = held \cup {cur.channelId}
            /\ pc' = "ret"
    /\ UNCHANGED <<_nextChannelId, _volume, _channels, _sources, chan,
                   released, cur, call, cbpc, cbId, cbChannel,
                   removedIds, mixerDone, departures>>
    /\ UNCHANGED <<config, gLegacyScene, destroyed, allocated>>

(***************************************************************************)
(* WebAudioMixer::Tick and WebAudioMixer::SetVolume                        *)
(***************************************************************************)
\* The loop of Tick with a stop path that keeps the entry in _channels.
RECURSIVE TickLoopKeepsEntry(_)
TickLoopKeepsEntry(st) ==
    IF st.i > Len(st.list) THEN st
    ELSE
      LET o == st.list[st.i]
          channel == st.chan[o]
          g == Ghost(st.removed, st.done)
      IN  IF channel._stopping
          THEN TickLoopKeepsEntry(
                 [st EXCEPT
                    !.out = Append(@, Cmd("Stop", channel._channelId, FALSE, g)),
                    !.chan = [@ EXCEPT ![o] = SetDone(channel, TRUE)],
                    !.done = @ \cup {channel._channelId},
                    !.map = RemoveChannel(@, channel._channelId),
                    !.removed = @ \cup ({channel._channelId} \cap DOMAIN st.map),
                    !.i = @ + 1])
          ELSE TickLoopKeepsEntry(
                 [st EXCEPT
                    !.out = IF ~channel._done
                            THEN @ \o UpdateChannel(channel, FALSE, st.m, g)
                            ELSE @,
                    !.i = @ + 1])

\* The loop of Tick without its stop path.
RECURSIVE TickLoopIgnoresStopping(_)
TickLoopIgnoresStopping(st) ==
    IF st.i > Len(st.list) THEN st
    ELSE
      LET channel == st.chan[st.list[st.i]]
          g == Ghost(st.removed, st.done)
      IN  TickLoopIgnoresStopping(
            [st EXCEPT
               !.out = IF ~channel._done
                       THEN @ \o UpdateChannel(channel, FALSE, st.m, g)
                       ELSE @,
               !.i = @ + 1])

\* The loop of Tick over _channels, from position st.i on.  The loop runs
\* under the lock and ends where a call blocks.
RECURSIVE TickLoop(_)
TickLoop(st) ==
    IF st.i > Len(st.list) \/ st.blocked THEN st
    ELSE
      LET o == st.list[st.i]
          channel == st.chan[o]
          g == Ghost(st.removed, st.done)
      IN  IF channel._stopping
          THEN IF Blocks(<<"RemoveChannel">>)
               THEN [st EXCEPT
                       !.out = Append(@, Cmd("Stop", channel._channelId,
                                             FALSE, g)),
                       !.chan = [@ EXCEPT ![o] = SetDone(channel, TRUE)],
                       !.done = @ \cup {channel._channelId},
                       !.blocked = TRUE]
               ELSE TickLoop(
                 [st EXCEPT
                    !.out = Append(@, Cmd("Stop", channel._channelId, FALSE, g)),
                    !.chan = [@ EXCEPT ![o] = SetDone(channel, TRUE)],
                    !.done = @ \cup {channel._channelId},
                    !.map = RemoveChannel(@, channel._channelId),
                    !.removed = @ \cup ({channel._channelId} \cap DOMAIN st.map),
                    !.list = SubSeq(@, 1, st.i - 1)
                             \o SubSeq(@, st.i + 1, Len(@))])
          ELSE IF ~channel._done /\ Blocks(UpdateChannelCalls(channel))
          THEN [st EXCEPT !.blocked = TRUE]
          ELSE TickLoop(
                 [st EXCEPT
                    !.out = IF ~channel._done
                            THEN @ \o UpdateChannel(channel, FALSE, st.m, g)
                            ELSE @,
                    !.i = @ + 1])

\* UpdateAdjustedSound(); lock; the loop over _channels.  `callerHolds`:
\* the function that called Tick holds the lock, so the lock of Tick blocks.
TickRun(callerHolds) ==
    /\ _mutex = "none"
    /\ LET cache == UpdateAdjustedSound(Cache, config)
           r == TickLoop([i |-> 1, list |-> _channels, chan |-> chan,
                          map |-> _channelMap, out |-> <<>>,
                          removed |-> removedIds, done |-> mixerDone,
                          m |-> MixerView(_volume', config, gLegacyScene,
                                          cache),
                          blocked |-> callerHolds])
       IN  /\ SetCache(cache)
           /\ _mutex' = "fg"
           /\ _channels' = r.list
           /\ _channelMap' = r.map
           /\ chan' = Collect(r.chan, Range(r.list) \cup held)
           /\ out' = r.out
           /\ removedIds' = r.removed
           /\ mixerDone' = r.done
           /\ departures' = CountGone(departures, Range(_channels), Range(r.list))
           /\ pc' = IF r.blocked THEN "blocked" ELSE "tickSweep"
    /\ UNCHANGED <<_nextChannelId, _sources, held, released,
                   cur, ret, cbpc, cbId, cbChannel>>
    /\ UNCHANGED <<config, gLegacyScene, destroyed, allocated>>

\* Tick()
TickCall ==
    /\ FgIdle
    /\ call' = [op |-> "Tick"]
    /\ UNCHANGED _volume
    /\ TickRun(FALSE)

\* SetVolume(volume): _volume = volume; Tick()
MixerSetVolume(volume) ==
    /\ FgIdle
    /\ _volume' = volume
    /\ call' = [op |-> "MixerSetVolume", volume |-> volume]
    /\ TickRun("SetVolume" \in LockingFunctions)

\* The sweep of _sources: remove_if(IsReleased)
SweepSources(sources, rel) ==
    SelectSeq(sources, LAMBDA s : s \notin rel)

\* the sweep; unlock; return
TickSweep ==
    /\ pc = "tickSweep"
    /\ _sources' = SweepSources(_sources, released)
    /\ released' = released \cap Range(_sources')
    /\ destroyed' = destroyed \cup (Range(_sources) \ Range(_sources'))
    /\ _mutex' = "none"
    /\ pc' = "ret"
    /\ UNCHANGED <<_nextChannelId, _volume, _channels, _channelMap, chan,
                   held, cur, call, ret, out, cbpc, cbId, cbChannel,
                   removedIds, mixerDone, departures>>
    /\ UNCHANGED <<config, gLegacyScene, _settingSoundVolume, _settingMusicVolume,
                   _adjustSoundVolume, _adjustMusicVolume, allocated>>

(***************************************************************************)
(* WebAudioMixer::Close                                                    *)
(***************************************************************************)
\* The loop of Close run twice.
CloseStopCmdsTwice(list, heap, g) ==
    [i \in 1..Len(list) |-> Cmd("Stop", heap[list[i]]._channelId, FALSE, g)]
    \o [i \in 1..Len(list) |-> Cmd("Stop", heap[list[i]]._channelId, FALSE, g)]

\* The loop of Close: one stop command per channel of the list.
CloseStopCmds(list, heap, g) ==
    [i \in 1..Len(list) |-> Cmd("Stop", heap[list[i]]._channelId, FALSE, g)]

\* lock; the stop commands; _channels.clear()
CloseStops ==
    /\ FgIdle
    /\ _mutex = "none"
    /\ _mutex' = "fg"
    /\ call' = [op |-> "Close"]
    /\ out' = CloseStopCmds(_channels, chan, G)
    /\ _channels' = <<>>
    /\ chan' = Collect(chan, held)
    /\ departures' = CountGone(departures, Range(_channels), {})
    /\ pc' = "closeClear"
    /\ UNCHANGED <<_nextChannelId, _volume, _channelMap, _sources, held,
                   released, cur, ret, cbpc, cbId, cbChannel, removedIds, mixerDone>>
    /\ UNCHANGED <<config, gLegacyScene, _settingSoundVolume, _settingMusicVolume,
                   _adjustSoundVolume, _adjustMusicVolume, destroyed, allocated>>

\* _channelMap.clear(); _sources.clear(); unlock
CloseClear ==
    /\ pc = "closeClear"
    /\ _channelMap' = EmptyMap
    /\ removedIds' = removedIds \cup DOMAIN _channelMap
    /\ _sources' = <<>>
    /\ released' = {}
    /\ destroyed' = destroyed \cup Range(_sources)
    /\ _mutex' = "none"
    /\ pc' = "ret"
    /\ UNCHANGED <<_nextChannelId, _volume, _channels, chan, held,
                   cur, call, ret, out, cbpc, cbId, cbChannel, mixerDone, departures>>
    /\ UNCHANGED <<config, gLegacyScene, _settingSoundVolume, _settingMusicVolume,
                   _adjustSoundVolume, _adjustMusicVolume, allocated>>

(***************************************************************************)
(* WebAudioMixer::AddSource and the release of a pooled source             *)
(***************************************************************************)
AddSource(source) ==
    /\ FgIdle
    /\ _mutex = "none"
    /\ source \notin Range(_sources)
    /\ source \notin destroyed
    /\ \A o \in DOMAIN chan : chan[o]._source # source
    /\ call' = [op |-> "AddSource", source |-> source]
    /\ _sources' = Append(_sources, source)
    /\ ret' = RetSource(source)
    /\ out' = <<>>
    /\ pc' = "ret"
    /\ UNCHANGED <<_nextChannelId, _volume, _channels, _channelMap, _mutex,
                   chan, held, released, cur, cbpc, cbId, cbChannel,
                   removedIds, mixerDone, departures>>
    /\ UNCHANGED <<config, gLegacyScene, _settingSoundVolume, _settingMusicVolume,
                   _adjustSoundVolume, _adjustMusicVolume, destroyed, allocated>>

\* SDLAudioSource::Release() by the owner of the audio object.
ReleaseSource(source) ==
    /\ FgIdle
    /\ source \in Range(_sources)
    /\ source \notin released
    /\ released' = released \cup {source}
    /\ UNCHANGED <<_nextChannelId, _volume, _channels, _channelMap, _sources,
                   _mutex, chan, held, pc, cur, call, ret, out, cbpc, cbId, cbChannel,
                   removedIds, mixerDone, departures>>
    /\ UNCHANGED <<config, gLegacyScene, _settingSoundVolume, _settingMusicVolume,
                   _adjustSoundVolume, _adjustMusicVolume, destroyed, allocated>>

(***************************************************************************)
(* The methods of a channel the caller holds a reference to.               *)
(***************************************************************************)
\* The field write of a setter, and the restart flag it passes on.
SetterWrite(c, kind, arg) ==
    CASE kind = "SetRate" -> SetRate(c, arg)
      [] kind = "SetVolume" -> SetVolume(c, arg)
      [] kind = "SetPan" -> SetPan(c, arg)
      [] kind = "SetGroup" -> SetGroup(c, arg)
      [] kind = "SetOffset" -> [c EXCEPT !._offsetBytes = arg]

\* No setter asks for a restart.
SetterRestartNever(kind) == FALSE

\* The restart argument of the setter's UpdateChannel: true in SetOffset only.
SetterRestart(kind) == kind = "SetOffset"

\* SetOffset without its guard.
SetOffsetNeverRefused(c) == FALSE

\* SetOffset's guard: a format with no bytes per second is refused.
SetOffsetRefused(c) == GetBytesPerSecond(c._format) = 0

SetterInputs ==
    ({"SetRate"} \X RateInputs) \cup ({"SetVolume"} \X VolumeInputs)
    \cup ({"SetPan"} \X PanInputs) \cup ({"SetGroup"} \X GroupInputs)
    \cup ({"SetOffset"} \X OffsetInputs)

\* SetRate / SetVolume / SetPan / SetGroup / SetOffset up to and including
\* the done-check of UpdateChannel.
SetterCall(o, kind, arg) ==
    /\ FgIdle
    /\ o \in held
    /\ call' = [op |-> kind, channel |-> o, arg |-> arg,
                removed |-> chan[o]._channelId \in removedIds,
                wasDone |-> chan[o]._channelId \in mixerDone]
    /\ out' = <<>>
    /\ IF kind = "SetOffset" /\ SetOffsetRefused(chan[o])
       THEN /\ ret' = RetBool(FALSE)
            /\ pc' = "ret"
            /\ UNCHANGED <<chan, cur>>
       ELSE /\ chan' = [chan EXCEPT ![o] = SetterWrite(@, kind, arg)]
            /\ IF UpdateChannelEnter(chan'[o])
               THEN /\ pc' = "dispatch"
                    /\ cur' = [channelId |-> o, restart |-> SetterRestart(kind)]
                    /\ ret' = RetVoid
               ELSE /\ pc' = "ret"
                    /\ cur' = NoCur
                    /\ ret' = IF kind = "SetOffset" THEN RetBool(TRUE)
                               ELSE RetVoid
    /\ UNCHANGED <<_nextChannelId, _volume, _channels, _channelMap, _sources,
                   _mutex, held, released, cbpc, cbId, cbChannel,
                   removedIds, mixerDone, departures>>
    /\ UNCHANGED <<config, gLegacyScene, _settingSoundVolume, _settingMusicVolume,
                   _adjustSoundVolume, _adjustMusicVolume, destroyed, allocated>>

\* The rest of UpdateChannel: the update command.
SetterDispatch ==
    /\ pc = "dispatch"
    /\ cbpc = "idle"
    /\ LET cache == UpdateAdjustedSound(Cache, config)
           m == MixerView(_volume, config, gLegacyScene, cache)
       IN  /\ SetCache(cache)
           /\ out' = out \o UpdateChannelSend(chan[cur.channelId],
                                              cur.restart, m, G)
    /\ ret' = IF call.op = "SetOffset" THEN RetBool(TRUE) ELSE RetVoid
    /\ pc' = "ret"
    /\ UNCHANGED <<_nextChannelId, _volume, _channels, _channelMap, _sources,
                   _mutex, chan, held, released, cur, call, cbpc, cbId, cbChannel,
                   removedIds, mixerDone, departures>>
    /\ UNCHANGED <<config, gLegacyScene, destroyed, allocated>>

\* WebAudioMixer::GetChannelOffsetBytes, for the position `seconds` that
\* WebAudioGetOffsetSeconds reports.
GetChannelOffsetBytes(c, seconds) ==
    LET bytesPerSecond == GetBytesPerSecond(c._format)
    IN  IF bytesPerSecond = 0 THEN 0 ELSE seconds * bytesPerSecond

\* WebAudioChannel::GetOffset
GetOffset(o, seconds) ==
    /\ FgIdle
    /\ o \in held
    /\ call' = [op |-> "GetOffset", channel |-> o, seconds |-> seconds]
    /\ ret' = RetOffset(GetChannelOffsetBytes(chan[o], seconds))
    /\ out' = <<>>
    /\ pc' = "ret"
    /\ UNCHANGED <<_nextChannelId, _volume, _channels, _channelMap, _sources,
                   _mutex, chan, held, released, cur, cbpc, cbId, cbChannel,
                   removedIds, mixerDone, departures>>
    /\ UNCHANGED <<config, gLegacyScene, _settingSoundVolume,
                   _settingMusicVolume, _adjustSoundVolume,
                   _adjustMusicVolume, destroyed, allocated>>

\* WebAudioChannel::IsPlaying
IsPlaying(c) == ~c._done

\* WebAudioChannel::Stop
Stop(o) ==
    /\ FgIdle
    /\ o \in held
    /\ call' = [op |-> "Stop", channel |-> o]
    /\ chan' = [chan EXCEPT ![o] = ChannelStop(@)]
    /\ out' = <<>>
    /\ ret' = RetVoid
    /\ pc' = "ret"
    /\ UNCHANGED <<_nextChannelId, _volume, _channels, _channelMap, _sources,
                   _mutex, held, released, cur, cbpc, cbId, cbChannel,
                   removedIds, mixerDone, departures>>
    /\ UNCHANGED <<config, gLegacyScene, _settingSoundVolume, _settingMusicVolume,
                   _adjustSoundVolume, _adjustMusicVolume, destroyed, allocated>>

\* WebAudioChannel::Play
ChannelPlay(o, source, loop) ==
    /\ FgIdle
    /\ o \in held
    /\ call' = [op |-> "ChannelPlay", channel |-> o]
    /\ chan' = [chan EXCEPT ![o] = ChannelPlayFields(@, source, loop)]
    /\ out' = <<>>
    /\ ret' = RetVoid
    /\ pc' = "ret"
    /\ UNCHANGED <<_nextChannelId, _volume, _channels, _channelMap, _sources,
                   _mutex, held, released, cur, cbpc, cbId, cbChannel,
                   removedIds, mixerDone, departures>>
    /\ UNCHANGED <<config, gLegacyScene, _settingSoundVolume, _settingMusicVolume,
                   _adjustSoundVolume, _adjustMusicVolume, destroyed, allocated>>

\* The caller lets go of its shared_ptr.
Drop(o) ==
    /\ FgIdle
    /\ o \in held
    /\ held' = held \ {o}
    /\ chan' = Collect(chan, Range(_channels) \cup held')
    /\ UNCHANGED <<_nextChannelId, _volume, _channels, _channelMap, _sources,
                   _mutex, released, pc, cur, call, ret, out, cbpc, cbId, cbChannel,
                   removedIds, mixerDone, departures>>
    /\ UNCHANGED <<config, gLegacyScene, _settingSoundVolume, _settingMusicVolume,
                   _adjustSoundVolume, _adjustMusicVolume, destroyed, allocated>>

(***************************************************************************)
(* WebAudioChannelEnded -> WebAudioMixer::OnChannelEnded                   *)
(***************************************************************************)
\* _channels.remove_if(entry->GetChannelId() == channelId)
RemoveIfId(list, heap, channelId) ==
    SelectSeq(list, LAMBDA o : heap[o]._channelId # channelId)

\* The body of OnChannelEnded under the lock.
OnChannelEndedBody(st, channelId) ==
    LET channel == FindChannel(st.map, st.chan, channelId)
    IN  IF channel # NULL
        THEN [st EXCEPT
                !.chan = [@ EXCEPT ![channel] = SetDone(@, TRUE)],
                !.done = @ \cup {st.chan[channel]._channelId},
                !.list = RemoveIfId(@, st.chan, channelId),
                !.map = RemoveChannel(@, channelId),
                !.removed = @ \cup ({channelId} \cap DOMAIN st.map)]
        ELSE st

OnChannelEnded(channelId) ==
    /\ cbpc = "idle"
    /\ pc # "ret"
    /\ _mutex = "none"
    /\ IF Blocks(<<"FindChannel", "RemoveChannel">>)
       THEN /\ _mutex' = "cb"
            /\ cbpc' = "blocked"
            /\ cbChannel' = NULL
            /\ UNCHANGED <<_channels, _channelMap, chan, removedIds,
                           mixerDone, departures>>
       ELSE /\ LET r == OnChannelEndedBody(
                          [list |-> _channels, chan |-> chan,
                           map |-> _channelMap, removed |-> removedIds,
                           done |-> mixerDone], channelId)
               IN  /\ _channels' = r.list
                   /\ _channelMap' = r.map
                   /\ chan' = Collect(r.chan, Range(r.list) \cup held)
                   /\ removedIds' = r.removed
                   /\ mixerDone' = r.done
                   /\ departures' = CountGone(departures, Range(_channels),
                                              Range(r.list))
            /\ cbpc' = "ret"
            /\ cbChannel' = FindChannel(_channelMap, chan, channelId)
            /\ UNCHANGED _mutex
    /\ cbId' = channelId
    /\ UNCHANGED <<_nextChannelId, _volume, _sources, held, released,
                   pc, cur, call, ret, out>>
    /\ UNCHANGED <<config, gLegacyScene, _settingSoundVolume, _settingMusicVolume,
                   _adjustSoundVolume, _adjustMusicVolume, destroyed, allocated>>

\* The callback returns to the backend.
EndedReturn ==
    /\ cbpc = "ret"
    /\ cbpc' = "idle"
    /\ cbId' = NULL
    /\ cbChannel' = NULL
    /\ UNCHANGED <<_nextChannelId, _volume, _channels, _channelMap, _sources,
                   _mutex, chan, held, released, pc, cur, call, ret, out,
                   removedIds, mixerDone, departures>>
    /\ UNCHANGED <<config, gLegacyScene, _settingSoundVolume, _settingMusicVolume,
                   _adjustSoundVolume, _adjustMusicVolume, destroyed, allocated>>

\* The operation returns to its caller.
Return ==
    /\ pc = "ret"
    /\ pc' = "idle"
    /\ cur' = NoCur
    /\ call' = NoCall
    /\ ret' = RetVoid
    /\ out' = <<>>
    /\ UNCHANGED <<_nextChannelId, _volume, _channels, _channelMap, _sources,
                   _mutex, chan, held, released, cbpc, cbId, cbChannel,
                   removedIds, mixerDone, departures>>
    /\ UNCHANGED <<config, gLegacyScene, _settingSoundVolume, _settingMusicVolume,
                   _adjustSoundVolume, _adjustMusicVolume, destroyed, allocated>>

\* The operations on the channels and the completion callback.
Next ==
    \/ \E s \in LifecycleSources, l \in LoopInputs, d \in DeleteOnDoneInputs :
          PlayCall(s, l, d)
    \/ PlayRegister
    \/ TickCall
    \/ \E v \in {100} : MixerSetVolume(v)
    \/ TickSweep
    \/ CloseStops
    \/ CloseClear
    \/ \E o \in ChannelIds, in \in SetterInputs : SetterCall(o, in[1], in[2])
    \/ SetterDispatch
    \/ \E o \in ChannelIds : Stop(o)
    \/ \E o \in ChannelIds, s \in SourceIds, l \in LoopInputs :
          ChannelPlay(o, s, l)
    \/ \E o \in ChannelIds : Drop(o)
    \/ \E id \in EndedIds : OnChannelEnded(id)
    \/ EndedReturn
    \/ Return

\* The mixer with its source pool and its master volume, without the
\* channel setters.
NextMixer ==
    \/ \E s \in PlaySources, l \in LoopInputs, d \in DeleteOnDoneInputs :
          PlayCall(s, l, d)
    \/ PlayRegister
    \/ TickCall
    \/ \E v \in MixerVolumeInputs : MixerSetVolume(v)
    \/ TickSweep
    \/ CloseStops
    \/ CloseClear
    \/ \E s \in SourceIds : AddSource(s)
    \/ \E s \in SourceIds : ReleaseSource(s)
    \/ \E o \in ChannelIds : Stop(o)
    \/ \E o \in ChannelIds : Drop(o)
    \/ \E id \in EndedIds : OnChannelEnded(id)
    \/ EndedReturn
    \/ Return

\* One playable source of 2 bytes per second, and one of sample rate 0.
PlayableSource == Source(1, TRUE, "S16", 1, 1, 2, TRUE)

SilentRateSource == Source(1, TRUE, "S16", 1, 0, 2, TRUE)

\* The effective volume: channel volume and group, master scalar, and a
\* configuration and scene that are any of the inputs.
InitVolume ==
    /\ InitMixer
    /\ config \in ConfigInputs
    /\ gLegacyScene \in SceneInputs

NextVolume ==
    \/ \E l \in LoopInputs, d \in DeleteOnDoneInputs :
          _nextChannelId <= ParamChannels /\ PlayCall(PlayableSource, l, d)
    \/ PlayRegister
    \/ \E o \in ChannelIds, v \in VolumeParamInputs :
          SetterCall(o, "SetVolume", v)
    \/ \E o \in ChannelIds, g \in GroupParamInputs :
          SetterCall(o, "SetGroup", g)
    \/ SetterDispatch
    \/ TickCall
    \/ \E v \in ScalarParamInputs : MixerSetVolume(v)
    \/ TickSweep
    \/ Return

\* Pan and offset of a channel.
NextChannel ==
    \/ \E s \in {PlayableSource, SilentRateSource},
          l \in LoopInputs, d \in DeleteOnDoneInputs :
          _nextChannelId <= ParamChannels /\ PlayCall(s, l, d)
    \/ PlayRegister
    \/ \E o \in ChannelIds, p \in PanParamInputs : SetterCall(o, "SetPan", p)
    \/ \E o \in ChannelIds, b \in OffsetInputs : SetterCall(o, "SetOffset", b)
    \/ SetterDispatch
    \/ \E o \in ChannelIds, t \in SecondsInputs : GetOffset(o, t)
    \/ Return

\* Stop, Tick and completion, with the scheduling the application gives:
\* every started operation runs to its end, and Tick is called again and
\* again.
NextLive ==
    \/ \E l \in LoopInputs, d \in DeleteOnDoneInputs :
          PlayCall(PlayableSource, l, d)
    \/ PlayRegister
    \/ TickCall
    \/ TickSweep
    \/ CloseStops
    \/ CloseClear
    \/ \E o \in ChannelIds : Stop(o)
    \/ \E o \in ChannelIds : Drop(o)
    \/ \E id \in EndedIds : OnChannelEnded(id)
    \/ EndedReturn
    \/ Return

Spec == Init /\ [][Next]_vars

SpecVolume == InitVolume /\ [][NextVolume]_vars

SpecChannel == Init /\ [][NextChannel]_vars

\* The steps that bring a started operation or completion to its end: a
\* thread that has entered a function runs it to its return.
Complete == PlayRegister \/ TickSweep \/ CloseClear \/ EndedReturn \/ Return

\* Tick can be called: the foreground thread is between two calls.  In every
\* reachable state this is ENABLED <<TickCall>>_vars.
TickEnabled == FgIdle /\ _mutex = "none"

\* Every started operation runs to its end, and Tick is called again and
\* again: the last conjunct is SF_vars(TickCall) written out with
\* TickEnabled for the enabledness.  Strong fairness it has to be, since
\* every other foreground call disables Tick until it returns.
SpecLive ==
    /\ Init
    /\ [][NextLive]_vars
    /\ WF_vars(Complete)
    /\ ([]<>TickEnabled => []<><<TickCall>>_vars)

\* Every operation that takes the lock, the setters that call UpdateChannel
\* without it, and the completions.
NextLock ==
    \/ \E l \in LoopInputs, d \in DeleteOnDoneInputs :
          PlayCall(PlayableSource, l, d)
    \/ PlayRegister
    \/ TickCall
    \/ \E v \in MixerVolumeInputs : MixerSetVolume(v)
    \/ TickSweep
    \/ CloseStops
    \/ CloseClear
    \/ \E s \in SourceIds : AddSource(s)
    \/ \E o \in ChannelIds, r \in RateInputs : SetterCall(o, "SetRate", r)
    \/ SetterDispatch
    \/ \E o \in ChannelIds : Stop(o)
    \/ \E id \in EndedIds : OnChannelEnded(id)
    \/ EndedReturn
    \/ Return

\* The steps of the foreground thread inside a started operation.
FgFinish ==
    PlayRegister \/ TickSweep \/ CloseClear \/ SetterDispatch \/ Return

\* The steps inside a started operation or completion.
Finish == FgFinish \/ EndedReturn

\* Each of the two contexts, once inside a function, runs on.  The dispatch
\* of a setter is taken between two completions, never inside one, so the
\* fairness of the foreground thread is strong.
SpecLock ==
    /\ Init
    /\ [][NextLock]_vars
    /\ SF_vars(FgFinish)
    /\ WF_vars(EndedReturn)

SpecMixer == Init /\ [][NextMixer]_vars

(***************************************************************************)
(* Properties.                                                             *)
(***************************************************************************)
\* The ids of the channels in the live-channel list.
ListIds == {chan[o]._channelId : o \in Range(_channels)}

SetterKinds == {"SetRate", "SetVolume", "SetPan", "SetGroup", "SetOffset"}

\* The positions of `cmds` that hold a command for `id`.
CmdsFor(cmds, id) == {i \in DOMAIN cmds : cmds[i].id = id}

\* A step in which Tick (or the Tick of SetVolume) runs its loop.
TickStep == pc = "idle" /\ pc' = "tickSweep"

\* A step in which OnChannelEnded runs.
EndedStep == cbpc = "idle" /\ cbpc' = "ret"

\* C1: whenever the mixer lock is free, the ids of the live-channel list are
\* exactly the keys of the registry, no id occurs twice in the list, and every
\* registry entry resolves to the live channel that carries its key.
C1_RegistryMatchesList ==
    _mutex = "none" =>
        /\ ListIds = DOMAIN _channelMap
        /\ \A i, j \in DOMAIN _channels :
              i # j => chan[_channels[i]]._channelId # chan[_channels[j]]._channelId
        /\ \A k \in DOMAIN _channelMap :
              /\ FindChannel(_channelMap, chan, k) # NULL
              /\ FindChannel(_channelMap, chan, k) \in Range(_channels)
              /\ chan[FindChannel(_channelMap, chan, k)]._channelId = k

\* One channel is live and registered after another one has been removed.
C1_Witness ==
    /\ _mutex = "none"
    /\ Len(_channels) = 1
    /\ DOMAIN _channelMap # {}
    /\ removedIds # {}

\* C2: an operation that begins after an id was removed from the registry
\* (a setter on a caller-held channel, a Tick) issues no UpdatePlayback and no
\* StopPlayback command for that id.
C2_NoCommandAfterRemoval ==
    \A i \in DOMAIN out :
        (out[i].type \in {"Update", "Stop"} /\ out[i].removed)
            => (call.op \in SetterKinds /\ ~call.removed)

\* C3: a setter that began while its id was registered never dispatches its
\* UpdatePlayback command after OnChannelEnded removed the id: the done-check and
\* the dispatch of UpdateChannel are atomic with respect to the removal.
C3_SetterUpdateAtomic ==
    \A i \in DOMAIN out :
        (call.op \in SetterKinds /\ ~call.removed /\ out[i].type = "Update")
            => ~out[i].removed

\* C4: a channel the mixer marked done stays done, and no operation that
\* begins afterwards issues an UpdatePlayback command for its id.
C4_DoneIsFinal ==
    /\ \A o \in DOMAIN chan :
          chan[o]._channelId \in mixerDone => chan[o]._done
    /\ \A i \in DOMAIN out :
          (out[i].type = "Update" /\ out[i].wasDone)
              => (call.op \in SetterKinds /\ ~call.wasDone)

\* C5: a Tick issues exactly one StopPlayback command and nothing else for
\* every live channel that is stopping, marks it done and removes it from the
\* list and the registry; and no Tick issues a command for an id that was
\* removed before it began.
C5_TickReapsStopping ==
    [][TickStep =>
          /\ \A o \in Range(_channels) :
                chan[o]._stopping =>
                    /\ \A i \in CmdsFor(out', chan[o]._channelId) :
                          out'[i].type = "Stop"
                    /\ Cardinality(CmdsFor(out', chan[o]._channelId)) = 1
                    /\ chan[o]._channelId \in mixerDone'
                    /\ o \in DOMAIN chan' => chan'[o]._done
                    /\ o \notin Range(_channels')
                    /\ chan[o]._channelId \notin DOMAIN _channelMap'
          /\ \A i \in DOMAIN out' : out'[i].id \notin removedIds]_vars

\* A Tick has just reaped a stopping channel the caller still holds, after an
\* earlier removal of another channel.
C5_Witness ==
    /\ pc = "tickSweep"
    /\ \E i \in DOMAIN out :
          /\ out[i].type = "Stop"
          /\ out[i].id \in held
          /\ removedIds \ {out[i].id} # {}

\* C6: Play returns a channel whose id is not 0, and a Tick leaves every live
\* channel that is neither stopping nor done in the list and the registry and
\* issues for it exactly one command: an UpdatePlayback without restart.
C6_TickUpdatesPlaying ==
    /\ [](pc = "ret" /\ call.op = "Play" /\ ret # RetChannel(NULL) =>
              /\ ret.type = "channel"
              /\ chan[ret.value]._channelId # 0
              /\ ret.value \in Range(_channels))
    /\ [][TickStep =>
            \A o \in Range(_channels) :
                (~chan[o]._stopping /\ ~chan[o]._done) =>
                    /\ o \in Range(_channels')
                    /\ chan[o]._channelId \in DOMAIN _channelMap'
                    /\ \A i \in CmdsFor(out', chan[o]._channelId) :
                          out'[i].type = "Update" /\ ~out'[i].restart
                    /\ Cardinality(CmdsFor(out', chan[o]._channelId)) = 1]_vars

\* A Tick has just updated two playing channels.
C6_Witness ==
    /\ pc = "tickSweep"
    /\ call.op = "Tick"
    /\ Len(out) = 2
    /\ \A i \in DOMAIN out : out[i].type = "Update" /\ ~out[i].restart
    /\ Len(_channels) = 2

\* C7: OnChannelEnded for an id that is not in the registry finds no channel
\* and changes nothing: list, registry, source pool, id counter, channels,
\* caller references and issued commands are as before.
C7_UnknownIdIsNoOp ==
    [][(EndedStep /\ cbId' \notin DOMAIN _channelMap) =>
          /\ cbChannel' = NULL
          /\ UNCHANGED <<_channels, _channelMap, _sources, released,
                         _nextChannelId, _volume, _mutex, chan, held,
                         pc, cur, call, ret, out,
                         removedIds, mixerDone, departures,
                         config, gLegacyScene, _settingSoundVolume,
                         _settingMusicVolume, _adjustSoundVolume,
                         _adjustMusicVolume, destroyed, allocated>>]_vars

\* A completion was delivered for an id that had been removed, while another
\* channel is live and a source is pooled.
C7_Witness ==
    /\ cbpc = "ret"
    /\ cbChannel = NULL
    /\ cbId \in removedIds
    /\ _channels # <<>>
    /\ _sources # <<>>

\* C8: Stop on a stopping channel changes nothing, a completion for an id that
\* was removed changes nothing, every id leaves the live-channel list at most
\* once, and a removed id is in neither the list nor the registry again.
C8_StopAndEndIdempotent ==
    /\ [][(pc = "idle" /\ pc' = "ret" /\ call'.op = "Stop") =>
             /\ chan'[call'.channel]._stopping
             /\ chan[call'.channel]._stopping => chan' = chan
             /\ UNCHANGED <<_channels, _channelMap>>]_vars
    /\ [][(EndedStep /\ cbId' \in removedIds) =>
             UNCHANGED <<_channels, _channelMap, chan>>]_vars
    /\ [](\A id \in ChannelIds :
             /\ departures[id] <= 1
             /\ id \in removedIds =>
                   /\ id \notin ListIds
                   /\ id \notin DOMAIN _channelMap
                   /\ departures[id] = 1)

\* The second completion for an id arrives after the channel, stopped twice,
\* has been removed.
C8_Witness ==
    /\ cbpc = "ret"
    /\ cbChannel = NULL
    /\ cbId \in removedIds
    /\ cbId \in DOMAIN chan
    /\ chan[cbId]._stopping
    /\ departures[cbId] = 1

\* The causes for which Play fails, read off the source.
SourceBytesPerSample(source) ==
    IF source.format.format = "U8" THEN 1
    ELSE IF source.format.format = "S16" THEN 2 ELSE 4

SourceIsRefused(source) ==
    \/ source.ptr = NULL
    \/ ~source.sdl
    \/ source.format.format \notin {"U8", "S16"} /\ ~source.cvt
    \/ source.format.channels <= 0
    \/ (source.length \div SourceBytesPerSample(source))
          \div source.format.channels <= 0

\* C9: a Play that fails returns no channel and changes nothing: the list, the
\* registry, the id counter, the channels and the caller's references are as
\* before and no backend command is issued.
C9_FailedPlayLeavesNoState ==
    [][(pc = "idle" /\ call'.op = "Play" /\ SourceIsRefused(call'.source)) =>
          /\ pc' = "ret"
          /\ ret' = RetChannel(NULL)
          /\ out' = <<>>
          /\ UNCHANGED <<_channels, _channelMap, _nextChannelId, _sources,
                         released, _volume, _mutex, chan, held,
                         removedIds, mixerDone, departures,
                         _settingSoundVolume, _settingMusicVolume,
                         _adjustSoundVolume, _adjustMusicVolume,
                         destroyed, allocated>>]_vars

\* A Play of an empty buffer has just failed while a channel is live.
C9_Witness ==
    /\ pc = "ret"
    /\ call.op = "Play"
    /\ call.source.ptr # NULL
    /\ call.source.sdl
    /\ call.source.length = 0
    /\ ret = RetChannel(NULL)
    /\ _channels # <<>>

\* C10: SetOffset on a channel whose format has 0 bytes per second returns
\* false at once, leaves every field of every channel unchanged and issues no
\* backend command.
C10_SetOffsetRefusedKeepsState ==
    [][(pc = "idle" /\ call'.op = "SetOffset"
          /\ GetBytesPerSecond(chan[call'.channel]._format) = 0) =>
          /\ pc' = "ret"
          /\ ret' = RetBool(FALSE)
          /\ out' = <<>>
          /\ chan' = chan
          /\ UNCHANGED <<_channels, _channelMap>>]_vars

\* SetOffset has just been refused on a live, playing channel.
C10_Witness ==
    /\ pc = "ret"
    /\ call.op = "SetOffset"
    /\ ret = RetBool(FALSE)
    /\ call.channel \in Range(_channels)
    /\ ~chan[call.channel]._done

\* C11: no translation between bytes and seconds divides by a zero
\* bytes-per-second: the offset of every start and update command is a proper
\* fraction, GetOffset returns 0 and SetOffset returns false for such a format.
C11_NoDivisionByZero ==
    /\ \A i \in DOMAIN out :
          out[i].type \in {"Start", "Update"} => out[i].offset.den # 0
    /\ (pc = "ret" /\ call.op = "GetOffset"
          /\ GetBytesPerSecond(chan[call.channel]._format) = 0)
          => ret = RetOffset(0)
    /\ (pc = "ret" /\ call.op = "SetOffset"
          /\ GetBytesPerSecond(chan[call.channel]._format) = 0)
          => ret = RetBool(FALSE)

\* C12: no channel of the live-channel list is bound to a source the mixer
\* has destroyed: the sweep of Tick keeps the sources live channels refer to.
C12_SweepKeepsBoundSources ==
    \A o \in Range(_channels) : chan[o]._source \notin destroyed

\* C13: the ids Play allocated start at 1, are never 0, strictly increase in
\* the order of allocation (so none is allocated twice), and the channels of
\* the live-channel list are in the order of their ids.
C13_IdsIncrease ==
    /\ allocated # <<>> => allocated[1] = 1
    /\ \A i \in DOMAIN allocated : allocated[i] # 0
    /\ \A i, j \in DOMAIN allocated : i < j => allocated[i] < allocated[j]
    /\ \A i, j \in DOMAIN _channels :
          i < j => chan[_channels[i]]._channelId < chan[_channels[j]]._channelId

\* Two ids were allocated; the first channel has gone and the second is live.
C13_Witness ==
    /\ Len(allocated) = 2
    /\ ListIds = {allocated[2]}
    /\ allocated[1] \in removedIds

\* C14: Stop sets the stopping flag of its channel and nothing else: the done
\* flag and IsPlaying are as before, list and registry are unchanged and no
\* command is issued.  A stopping channel leaves the list only in a Tick, a
\* completion or Close, and until then a setter on it, if the channel is not
\* done, still dispatches its one update command.
C14_StopOnlyFlags ==
    /\ [][(pc = "idle" /\ pc' = "ret" /\ call'.op = "Stop") =>
             /\ chan' = [chan EXCEPT ![call'.channel]._stopping = TRUE]
             /\ IsPlaying(chan'[call'.channel]) = IsPlaying(chan[call'.channel])
             /\ out' = <<>>
             /\ UNCHANGED <<_channels, _channelMap>>]_vars
    /\ [][\A o \in Range(_channels) :
             (chan[o]._stopping /\ o \notin Range(_channels'))
                 => (TickStep \/ EndedStep \/ call'.op = "Close")]_vars
    /\ [][(pc = "idle" /\ call'.op \in SetterKinds
             /\ chan[call'.channel]._stopping /\ ~chan[call'.channel]._done
             /\ ~(call'.op = "SetOffset"
                    /\ GetBytesPerSecond(chan[call'.channel]._format) = 0))
             => pc' = "dispatch"]_vars
    /\ [][(pc = "dispatch" /\ pc' = "ret" /\ chan[cur.channelId]._stopping) =>
             /\ Len(out') = 1
             /\ out'[1].type = "Update"
             /\ out'[1].id = chan[cur.channelId]._channelId]_vars

\* A setter has just sent its update for a live channel that is stopping and
\* still reports IsPlaying.
C14_Witness ==
    /\ pc = "ret"
    /\ call.op \in SetterKinds
    /\ Len(out) = 1
    /\ call.channel \in Range(_channels)
    /\ chan[call.channel]._stopping
    /\ IsPlaying(chan[call.channel])

\* C15: with Tick called again and again, every live channel that is stopping
\* is eventually in neither the list nor the registry; a Tick removes every
\* live stopping channel, and so does a completion for its id.
C15_StoppedEventuallyRemoved ==
    /\ \A o \in ChannelIds :
          (o \in Range(_channels) /\ chan[o]._stopping)
              ~> (o \notin Range(_channels) /\ o \notin DOMAIN _channelMap)
    /\ [][\A o \in Range(_channels) :
             (chan[o]._stopping
                /\ (TickStep \/ (EndedStep /\ cbId' = chan[o]._channelId)))
                 => /\ o \notin Range(_channels')
                    /\ chan[o]._channelId \notin DOMAIN _channelMap']_vars

\* A completion has just removed a stopping channel before any Tick saw it.
C15_Witness ==
    /\ cbpc = "ret"
    /\ cbChannel # NULL
    /\ cbChannel \in held
    /\ chan[cbChannel]._stopping
    /\ cbChannel \notin Range(_channels)
    /\ cbId \notin DOMAIN _channelMap

\* The commands of `cmds` that carry an effective volume.
VolumeCmds(cmds) ==
    {i \in DOMAIN cmds : cmds[i].type \in {"Start", "Update"}}

\* C16: with master sound disabled in the configuration, or with the master
\* scalar of the mixer at 0, the start command and every update command carry
\* the effective volume 0, whatever the channel's volume and group and
\* whatever the scene.
C16_MutedMeansZero ==
    \A i \in VolumeCmds(out) :
        (~config.masterSoundEnabled \/ _volume = 0) => out[i].volume = 0

\* An update for a music channel at full volume, in the title sequence, with
\* the master scalar at 1.0 and master sound disabled, carries volume 0.
C16_Witness ==
    /\ ~config.masterSoundEnabled
    /\ _volume = 100
    /\ gLegacyScene = "titleSequence"
    /\ \E i \in VolumeCmds(out) :
          /\ out[i].type = "Update"
          /\ chan[out[i].id]._volume = kMixerVolumeMax
          /\ chan[out[i].id]._group = "TitleMusic"
          /\ out[i].volume = 0

\* The product GetAdjustedVolume forms before any cap, in 1/10000000, from
\* the state of the mixer and the fields of the channel.
UncappedVolume(c) ==
    LET master == IF config.masterSoundEnabled THEN config.masterVolume ELSE 0
        curve == IF c._group = "Sound" THEN _adjustSoundVolume
                 ELSE _adjustMusicVolume
    IN  (c._volume * (_volume * master * curve)) \div kMixerVolumeMax

\* C17: in the title sequence the effective volume of a channel of group
\* Sound is at most 0.75; for a channel of group RideMusic or TitleMusic, and
\* for every group outside the title sequence, it is the uncapped product.
C17_TitleCapsSound ==
    \A i \in VolumeCmds(out) :
        LET c == chan[out[i].id]
        IN  /\ (gLegacyScene = "titleSequence" /\ c._group = "Sound")
                 => out[i].volume <= 7500000
            /\ (gLegacyScene # "titleSequence" \/ c._group # "Sound")
                 => out[i].volume = UncappedVolume(c)

\* In the title sequence a Sound channel at full volume, with every setting
\* at its maximum, is sent 0.75 where the uncapped product is 1.0.
C17_Witness ==
    /\ gLegacyScene = "titleSequence"
    /\ \E i \in VolumeCmds(out) :
          /\ chan[out[i].id]._group = "Sound"
          /\ chan[out[i].id]._volume = kMixerVolumeMax
          /\ UncappedVolume(chan[out[i].id]) = 10000000
          /\ out[i].volume = 7500000

\* C18: the pan of every channel lies in [0, 1]; the left gain at p is the
\* right gain at 1 - p; the side the pan leans toward (left up to 0.5, right
\* from 0.5) has gain exactly 1.0 and the other side at most 1.0; at 0.5 both
\* are 1.0; and SetPan stores its argument clamped to [0, 1].
C18_PanLawSymmetric ==
    /\ [](\A o \in DOMAIN chan :
            LET c == chan[o]
            IN  /\ c._pan \in 0..10
                /\ c._volume_l = SetPan(c, 10 - c._pan)._volume_r
                /\ c._volume_r = SetPan(c, 10 - c._pan)._volume_l
                /\ c._pan <= 5 => (c._volume_l = 100000 /\ c._volume_r <= 100000)
                /\ c._pan >= 5 => (c._volume_r = 100000 /\ c._volume_l <= 100000)
                /\ c._pan < 5 => c._volume_r = 100000 \div Pow10(5 - c._pan)
                /\ c._pan > 5 => c._volume_l = 100000 \div Pow10(c._pan - 5))
    /\ [][(pc = "idle" /\ call'.op = "SetPan") =>
             chan'[call'.channel]._pan =
                 IF call'.arg < 0 THEN 0
                 ELSE IF call'.arg > 10 THEN 10 ELSE call'.arg]_vars

\* SetPan(1.4) has stored pan 1.0: the right gain is 1.0 and the left gain
\* is the full attenuation.
C18_Witness ==
    /\ pc = "ret"
    /\ call.op = "SetPan"
    /\ call.arg = 14
    /\ chan[call.channel]._pan = 10
    /\ chan[call.channel]._volume_r = 100000
    /\ chan[call.channel]._volume_l = 1

\* C19: the volume of every channel lies in [0, MAX] in every state, and
\* SetVolume(v) stores v clamped to [0, MAX]: v itself when it is in range,
\* 0 when it is below and MAX when it is above.
C19_VolumeClamped ==
    /\ [](\A o \in DOMAIN chan : chan[o]._volume \in 0..kMixerVolumeMax)
    /\ [][(pc = "idle" /\ call'.op = "SetVolume") =>
             chan'[call'.channel]._volume =
                 IF call'.arg < 0 THEN 0
                 ELSE IF call'.arg > kMixerVolumeMax THEN kMixerVolumeMax
                 ELSE call'.arg]_vars

\* SetVolume(-5) on a channel has stored 0.
C19_Witness ==
    /\ pc = "ret"
    /\ call.op = "SetVolume"
    /\ call.arg = -5
    /\ chan[call.channel]._volume = 0

\* The positions of `cmds` that hold a stop command for `id`.
StopsFor(cmds, id) == {i \in CmdsFor(cmds, id) : cmds[i].type = "Stop"}

\* C20: an operation issues a stop command only for an id that is in the
\* live-channel list and has not been removed, by a completion or otherwise,
\* and at most one for it; the id leaves the list in the same step and is out
\* of the registry when the operation returns.  Removed ids never come back,
\* so no id is stopped twice, by Tick and Close or otherwise, and none is
\* stopped after its completion.
C20_StopAndEndExclusive ==
    /\ [](\A i \in DOMAIN out :
            out[i].type = "Stop" =>
                /\ ~out[i].removed
                /\ ~out[i].wasDone
                /\ Cardinality(StopsFor(out, out[i].id)) = 1
                /\ call.op \in {"Tick", "MixerSetVolume", "Close"}
                /\ pc = "ret" => /\ out[i].id \in removedIds
                                 /\ out[i].id \notin ListIds
                                 /\ out[i].id \notin DOMAIN _channelMap)
    /\ [][\A i \in DOMAIN out' :
            (out' # out /\ out'[i].type = "Stop") =>
                /\ out'[i].id \in ListIds
                /\ out'[i].id \in DOMAIN _channelMap
                /\ out'[i].id \notin removedIds
                /\ out'[i].id \notin {chan'[o]._channelId : o \in Range(_channels')}]_vars
    /\ [][removedIds \subseteq removedIds']_vars

\* Close has just stopped the one live channel, after a Tick or a completion
\* removed and marked done another one.
C20_Witness ==
    /\ pc = "ret"
    /\ call.op = "Close"
    /\ Len(out) = 1
    /\ out[1].type = "Stop"
    /\ (removedIds \cap mixerDone) \ {out[1].id} # {}

\* The ids for which Play has issued the start command: the allocated ids,
\* less the one of a Play that has not reached its WebAudioPlayChannel yet.
StartedIds ==
    {allocated[i] : i \in DOMAIN allocated}
        \ (IF pc = "playReg" THEN {cur.channelId} ELSE {})

\* C21: a step issues an update or a stop command only for an id whose start
\* command was issued before; a start command is issued for an id that had
\* none, once, as the first command of its operation for that id; and an id
\* counts as started from the step that issues its start command on.  So the
\* start command of Play is the first command of every id and its only start.
C21_StartComesFirst ==
    /\ [][\A i \in DOMAIN out' :
            (out' # out /\ out'[i].type \in {"Update", "Stop"})
                => out'[i].id \in StartedIds]_vars
    /\ [][\A i \in DOMAIN out' :
            (out' # out /\ out'[i].type = "Start") =>
                /\ out'[i].id \notin StartedIds
                /\ out'[i].id \in StartedIds'
                /\ \A j \in CmdsFor(out', out'[i].id) : j = i
                /\ call'.op = "Play"]_vars
    /\ [][/\ StartedIds \subseteq StartedIds'
          /\ \A id \in StartedIds' \ StartedIds :
                \E i \in DOMAIN out' :
                    out'[i].type = "Start" /\ out'[i].id = id]_vars

\* Play has just started a second channel: its start command is the only
\* command of the operation, and the first channel was started before.
C21_Witness ==
    /\ pc = "ret"
    /\ call.op = "Play"
    /\ Len(out) = 1
    /\ out[1].type = "Start"
    /\ StartedIds \ {out[1].id} # {}
    /\ out[1].id \in DOMAIN _channelMap

\* The positions of the foreground thread inside a critical section.
LockedPositions == {"playReg", "tickSweep", "closeClear"}

\* C22: no context ever blocks in a lock it holds itself; the foreground
\* thread holds the lock exactly inside Play, Tick and Close and has released
\* it when the operation returns, and a completion never keeps it; whenever an
\* operation or a completion is in progress one of its steps can be taken;
\* and every started operation and every started completion comes to its end.
C22_NoSelfDeadlock ==
    /\ [](pc # "blocked" /\ cbpc # "blocked")
    /\ [](_mutex = "fg" <=> pc \in LockedPositions)
    /\ [](_mutex \in {"none", "fg"})
    /\ []((pc # "idle" \/ cbpc # "idle") => ENABLED Finish)
    /\ (pc # "idle") ~> (pc = "idle")
    /\ (cbpc # "idle") ~> (cbpc = "idle")

\* Play holds the lock, past the constructor and its three setters, with a
\* channel of an earlier Play still live.
C22_Witness ==
    /\ pc = "playReg"
    /\ _mutex = "fg"
    /\ call.op = "Play"
    /\ Len(_channels) = 2
    /\ out = <<>>

\* A step in which the SetVolume of the mixer stores the scalar and runs the
\* loop of Tick.
SetVolumeStep == TickStep /\ call'.op = "MixerSetVolume"

\* C23: SetVolume(scalar) of the mixer stores the scalar and runs one whole
\* Tick.  Every live channel that is not stopping stays in the list and the
\* registry and gets exactly one command, an update without restart whose
\* volume is computed with the new scalar; every live channel that is
\* stopping gets exactly one command, a stop, is marked done and leaves the
\* list and the registry; and the sweep of the sources follows.
C23_SetVolumeRunsTick ==
    /\ [][SetVolumeStep =>
            /\ _volume' = call'.volume
            /\ _mutex' = "fg"
            /\ \A o \in Range(_channels) :
                  LET id == chan[o]._channelId
                  IN  /\ Cardinality(CmdsFor(out', id)) = 1
                      /\ ~chan[o]._stopping =>
                            /\ o \in Range(_channels')
                            /\ id \in DOMAIN _channelMap'
                            /\ chan'[o] = chan[o]
                            /\ \A i \in CmdsFor(out', id) :
                                  /\ out'[i].type = "Update"
                                  /\ ~out'[i].restart
                                  /\ out'[i].volume = UncappedVolume(chan[o])'
                      /\ chan[o]._stopping =>
                            /\ o \notin Range(_channels')
                            /\ id \notin DOMAIN _channelMap'
                            /\ id \in mixerDone'
                            /\ \A i \in CmdsFor(out', id) :
                                  out'[i].type = "Stop"
            /\ \A i \in DOMAIN out' : out'[i].id \in ListIds]_vars
    /\ [][(pc = "tickSweep" /\ call.op = "MixerSetVolume") =>
            /\ pc' = "ret"
            /\ _mutex' = "none"
            /\ _sources' = SweepSources(_sources, released)
            /\ UNCHANGED <<_volume, _channels, _channelMap, out>>]_vars

\* SetVolume(0) after a scalar of 1.0 has just stopped a stopping channel and
\* sent the other one an update of volume 0.
C23_Witness ==
    /\ pc = "tickSweep"
    /\ call.op = "MixerSetVolume"
    /\ call.volume = 0
    /\ _volume = 0
    /\ Len(out) = 2
    /\ \E i, j \in DOMAIN out :
          /\ out[i].type = "Stop"
          /\ out[j].type = "Update"
          /\ out[j].volume = 0
          /\ chan[out[j].id]._volume = kMixerVolumeMax

\* A step in which a setter's UpdateChannel sends its command.
DispatchStep == pc = "dispatch" /\ pc' = "ret"

\* C24: SetOffset on a live channel that is not done and whose format has
\* bytes per second records the byte offset and goes on to its one command;
\* it returns true and the command is an update with the restart flag set
\* and the offset in seconds offset / bytesPerSecond.  The one update of
\* every other setter, and every update of a Tick, has the restart flag clear.
C24_SetOffsetRestarts ==
    /\ [][(pc = "idle" /\ call'.op = "SetOffset"
             /\ call'.channel \in Range(_channels)
             /\ ~chan[call'.channel]._done
             /\ GetBytesPerSecond(chan[call'.channel]._format) > 0) =>
            /\ chan' = [chan EXCEPT ![call'.channel]._offsetBytes = call'.arg]
            /\ out' = <<>>
            /\ pc' = "dispatch"]_vars
    /\ [][(DispatchStep /\ call.op = "SetOffset") =>
            /\ ret' = RetBool(TRUE)
            /\ Len(out') = 1
            /\ out'[1].type = "Update"
            /\ out'[1].id = chan[call.channel]._channelId
            /\ out'[1].restart
            /\ out'[1].offset.num = call.arg
            /\ out'[1].offset.den = GetBytesPerSecond(chan[call.channel]._format)
            /\ out'[1].offset.den > 0
            /\ chan' = chan]_vars
    /\ [][(DispatchStep /\ call.op \in SetterKinds \ {"SetOffset"}) =>
            /\ Len(out') = 1
            /\ out'[1].type = "Update"
            /\ out'[1].id = chan[call.channel]._channelId
            /\ ~out'[1].restart]_vars
    /\ [][TickStep =>
            \A i \in DOMAIN out' :
                out'[i].type = "Update" => ~out'[i].restart]_vars

\* SetOffset(4) on a live channel of 2 bytes per second has returned true
\* after its update with restart at 4 / 2 seconds.
C24_Witness ==
    /\ pc = "ret"
    /\ call.op = "SetOffset"
    /\ ret = RetBool(TRUE)
    /\ call.channel \in Range(_channels)
    /\ chan[call.channel]._offsetBytes = 4
    /\ Len(out) = 1
    /\ out[1].type = "Update"
    /\ out[1].restart
    /\ out[1].offset = Seconds(4, 2)

\* C25: the channel Play returns has rate 1.0, pan 0.5 with both gains 1.0,
\* group Sound and a near-silent volume, which is not MAX; and the start
\* command of that Play carries the effective volume of that channel volume.
C25_PlayDefaults ==
    (pc = "ret" /\ call.op = "Play" /\ ret # RetChannel(NULL)) =>
        LET c == chan[ret.value]
        IN  /\ c._rate = 1000
            /\ c._pan = 5
            /\ c._volume_l = 100000
            /\ c._volume_r = 100000
            /\ c._group = "Sound"
            /\ c._volume # kMixerVolumeMax
            /\ \E i \in DOMAIN out :
                  /\ out[i].type = "Start"
                  /\ out[i].id = c._channelId
                  /\ out[i].volume = GetAdjustedVolume(c, M)

====
